---- MODULE Spec2Model ----
(***************************************************************************)
(* Majestic MCP server (hosted variant, src/src/index.ts): nine MCP tools, *)
(* each validating its arguments against a zod schema, translating them    *)
(* into one Majestic API request (majesticRequest) and reshaping the       *)
(* provider's JSON envelope into a tool result.                            *)
(*                                                                         *)
(* JSON values are tagged records; an object is a set of <<key, value>>    *)
(* pairs with one pair per key, an absent key reads as undefined.          *)
(***************************************************************************)
EXTENDS Integers, Sequences, FiniteSets, TLC

VARIABLES env, pc, call, sent, resp, outcome

vars == <<env, pc, call, sent, resp, outcome>>

(***************************************************************************)
(* Bounds of the model.                                                    *)
(***************************************************************************)
\* items arrays of every length 0..MaxLen are tried (besides the documented
\* maximum and one more)
MaxLen == 6
\* a provider table carries 0..MaxRows rows
MaxRows == 2
\* a topics row fills at most MaxFilled of its topic slots (besides the full row)
MaxFilled == 2

(***************************************************************************)
(* JavaScript / JSON values.                                               *)
(***************************************************************************)
JUndef == [t |-> "undef"]
JNull == [t |-> "null"]
JStr(s) == [t |-> "str", v |-> s]
JNum(n) == [t |-> "num", v |-> n]
JBool(b) == [t |-> "bool", v |-> b]
JArr(s) == [t |-> "arr", v |-> s]
JObj(ps) == [t |-> "obj", v |-> ps]

\* JavaScript truthiness: undefined, null, "", 0 and false are falsy; every
\* array and object (the empty ones too) is truthy.
Truthy(x) ==
    CASE x.t = "undef" -> FALSE
      [] x.t = "null" -> FALSE
      [] x.t = "str" -> x.v # ""
      [] x.t = "num" -> x.v # 0
      [] x.t = "bool" -> x.v
      [] OTHER -> TRUE

\* a || b
Or(a, b) == IF Truthy(a) THEN a ELSE b

Has(x, k) == x.t = "obj" /\ \E p \in x.v : p[1] = k

\* x.k on a value that is neither null nor undefined
Get(x, k) == IF Has(x, k) THEN (CHOOSE p \in x.v : p[1] = k)[2] ELSE JUndef

\* x?.k
OptGet(x, k) == IF x.t \in {"undef", "null"} THEN JUndef ELSE Get(x, k)

\* x?.[n] for an array x (n counted from 0)
OptIndex(x, n) ==
    IF x.t = "arr" /\ n < Len(x.v) THEN x.v[n + 1] ELSE JUndef

\* String(x), as a template literal and URLSearchParams.set apply it
String(x) ==
    CASE x.t = "str" -> x.v
      [] x.t = "num" -> ToString(x.v)
      [] x.t = "bool" -> IF x.v THEN "true" ELSE "false"
      [] x.t = "null" -> "null"
      [] x.t = "undef" -> "undefined"

\* Object.fromEntries: a later entry of the same key wins
fromEntries(es) ==
    [k \in {es[n][1] : n \in DOMAIN es} |->
        es[CHOOSE n \in DOMAIN es :
              es[n][1] = k /\ \A m \in DOMAIN es : m > n => es[m][1] # k][2]]

\* { ...a, ...b }: b's keys override a's
Spread(a, b) == b @@ a

(***************************************************************************)
(* zod schemas.                                                            *)
(***************************************************************************)
ZField(kind) ==
    [kind |-> kind, hasMin |-> FALSE, min |-> 0, hasMax |-> FALSE, max |-> 0,
     values |-> {}, optional |-> FALSE, def |-> JUndef]
ZString == ZField("string")
ZNumber == ZField("number")
ZBoolean == ZField("boolean")
ZArrayOfString == ZField("array")
ZEnum(vals) == [ZField("enum") EXCEPT !.values = vals]
Min(f, n) == [f EXCEPT !.hasMin = TRUE, !.min = n]
Max(f, n) == [f EXCEPT !.hasMax = TRUE, !.max = n]
Default(f, d) == [f EXCEPT !.def = d]
Optional(f) == [f EXCEPT !.optional = TRUE]

\* the value a field parses to: undefined takes the default, if there is one
FieldValue(f, v) == IF v.t = "undef" THEN f.def ELSE v

\* whether a field's schema accepts the value given for it
FieldOK(f, v) ==
    LET x == FieldValue(f, v)
        inRange(n) == (f.hasMin => n >= f.min) /\ (f.hasMax => n <= f.max)
    IN  IF x.t = "undef" THEN f.optional
        ELSE CASE f.kind = "string" -> x.t = "str"
               [] f.kind = "number" -> x.t = "num" /\ inRange(x.v)
               [] f.kind = "boolean" -> x.t = "bool"
               [] f.kind = "enum" -> x.t = "str" /\ x.v \in f.values
               [] f.kind = "array" ->
                    /\ x.t = "arr"
                    /\ \A i \in 1..Len(x.v) : x.v[i].t = "str"
                    /\ inRange(Len(x.v))

Datasource == Default(ZEnum({"fresh", "historic"}), JStr("fresh"))

get_index_item_info_schema ==
    [items |-> ZArrayOfString,
     datasource |-> Datasource,
     includeSubdomains |-> Default(ZBoolean, JBool(TRUE))]

get_backlinks_schema ==
    [item |-> ZString,
     datasource |-> Datasource,
     count |-> Default(Max(Min(ZNumber, 1), 50000), JNum(100)),
     mode |-> Default(ZEnum({"0", "1"}), JStr("0")),
     filterTopic |-> Optional(ZString),
     filterRefDomain |-> Optional(ZString)]

\* variant: count keeps the maximum of get_backlinks
get_anchor_text_schema_max50000 ==
    [item |-> ZString,
     datasource |-> Datasource,
     count |-> Default(Max(Min(ZNumber, 1), 50000), JNum(100)),
     mode |-> Default(ZEnum({"0", "1"}), JStr("0")),
     textMode |-> Default(ZEnum({"0", "1", "2"}), JStr("0"))]

get_anchor_text_schema ==
    [item |-> ZString,
     datasource |-> Datasource,
     count |-> Default(Max(Min(ZNumber, 1), 1000), JNum(100)),
     mode |-> Default(ZEnum({"0", "1"}), JStr("0")),
     textMode |-> Default(ZEnum({"0", "1", "2"}), JStr("0"))]

get_ref_domains_schema ==
    [item |-> ZString,
     datasource |-> Datasource,
     count |-> Default(Max(Min(ZNumber, 1), 50000), JNum(100)),
     orderBy |-> Default(ZEnum({"TrustFlow", "CitationFlow", "AlexaRank", "RefDomains"}),
                         JStr("TrustFlow")),
     filterTopic |-> Optional(ZString)]

get_top_pages_schema ==
    [item |-> ZString,
     datasource |-> Datasource,
     count |-> Default(Max(Min(ZNumber, 1), 10000), JNum(100)),
     orderBy |-> Default(ZEnum({"ExtBackLinks", "RefDomains", "TrustFlow", "CitationFlow"}),
                         JStr("ExtBackLinks"))]

get_topics_schema ==
    [item |-> ZString,
     datasource |-> Datasource]

get_new_lost_backlinks_schema ==
    [item |-> ZString,
     count |-> Default(Max(Min(ZNumber, 1), 50000), JNum(100)),
     mode |-> Default(ZEnum({"new", "lost"}), JStr("new"))]

\* variant: the items array without its size limits
compare_items_schema_unsized ==
    [items |-> ZArrayOfString,
     datasource |-> Datasource]

compare_items_schema ==
    [items |-> Max(Min(ZArrayOfString, 2), 5),
     datasource |-> Datasource]

Tools ==
    {"get_index_item_info", "get_backlinks", "get_anchor_text", "get_ref_domains",
     "get_top_pages", "get_topics", "get_new_lost_backlinks", "compare_items",
     "get_subscription_info"}

\* the schema a tool is registered with; get_subscription_info takes none
Schema(tool) ==
    CASE tool = "get_index_item_info" -> get_index_item_info_schema
      [] tool = "get_backlinks" -> get_backlinks_schema
      [] tool = "get_anchor_text" -> get_anchor_text_schema
      [] tool = "get_ref_domains" -> get_ref_domains_schema
      [] tool = "get_top_pages" -> get_top_pages_schema
      [] tool = "get_topics" -> get_topics_schema
      [] tool = "get_new_lost_backlinks" -> get_new_lost_backlinks_schema
      [] tool = "compare_items" -> compare_items_schema

HasSchema(tool) == tool # "get_subscription_info"

\* the arguments pass the tool's schema
Valid(tool, raw) ==
    HasSchema(tool) =>
        \A k \in DOMAIN Schema(tool) : FieldOK(Schema(tool)[k], Get(raw, k))

\* the arguments the handler receives: every schema key, defaults filled in
Parse(tool, raw) ==
    IF HasSchema(tool)
    THEN [k \in DOMAIN Schema(tool) |-> FieldValue(Schema(tool)[k], Get(raw, k))]
    ELSE <<>>

(***************************************************************************)
(* Tool handlers: translation of the parsed arguments into the provider's  *)
(* command and parameters.  Parameters map a key to a JSON scalar.         *)
(***************************************************************************)
MAJESTIC_API_URL == "https://api.majestic.com/api/json"

\* `item${i}`
ItemKey(i) == "item" \o ToString(i)

\* items.map((item, i) => [`item${i}`, item])
ItemEntries(items) == [i \in 1..Len(items) |-> <<ItemKey(i - 1), items[i]>>]

get_index_item_info_params(a) ==
    Spread(Spread("items" :> JNum(Len(a.items.v)),
                  fromEntries(ItemEntries(a.items.v))),
           "datasource" :> a.datasource
           @@ "DesiredTopics" :> JNum(0)
           @@ "GetSubDomainData" :> JNum(IF a.includeSubdomains.v THEN 1 ELSE 0))

\* variant: the filters are attached whenever they were given (!== undefined)
get_backlinks_params_defined(a) ==
    LET params == "item" :> a.item @@ "datasource" :> a.datasource
                  @@ "Count" :> a.count @@ "Mode" :> a.mode
        withTopic == IF a.filterTopic # JUndef
                     THEN Spread(params, "FilterTopic" :> a.filterTopic)
                     ELSE params
    IN  IF a.filterRefDomain # JUndef
        THEN Spread(withTopic, "FilterRefDomain" :> a.filterRefDomain)
        ELSE withTopic

\* if (filterTopic) params.FilterTopic = filterTopic;
\* if (filterRefDomain) params.FilterRefDomain = filterRefDomain;
get_backlinks_params(a) ==
    LET params == "item" :> a.item @@ "datasource" :> a.datasource
                  @@ "Count" :> a.count @@ "Mode" :> a.mode
        withTopic == IF Truthy(a.filterTopic)
                     THEN Spread(params, "FilterTopic" :> a.filterTopic)
                     ELSE params
    IN  IF Truthy(a.filterRefDomain)
        THEN Spread(withTopic, "FilterRefDomain" :> a.filterRefDomain)
        ELSE withTopic

get_anchor_text_params(a) ==
    "item" :> a.item @@ "datasource" :> a.datasource @@ "Count" :> a.count
    @@ "Mode" :> a.mode @@ "TextMode" :> a.textMode

\* variant: the codes of CitationFlow and AlexaRank exchanged
RefDomainsOrderBy_swapped(orderBy) ==
    IF orderBy = JStr("TrustFlow") THEN 0
    ELSE IF orderBy = JStr("AlexaRank") THEN 1
    ELSE IF orderBy = JStr("CitationFlow") THEN 2
    ELSE 3

\* orderBy === "TrustFlow" ? 0 : orderBy === "CitationFlow" ? 1 : ... : 3
RefDomainsOrderBy(orderBy) ==
    IF orderBy = JStr("TrustFlow") THEN 0
    ELSE IF orderBy = JStr("CitationFlow") THEN 1
    ELSE IF orderBy = JStr("AlexaRank") THEN 2
    ELSE 3

get_ref_domains_params(a) ==
    LET params == "item" :> a.item @@ "datasource" :> a.datasource
                  @@ "Count" :> a.count
                  @@ "OrderBy" :> JNum(RefDomainsOrderBy(a.orderBy))
    IN  IF Truthy(a.filterTopic)
        THEN Spread(params, "FilterTopic" :> a.filterTopic)
        ELSE params

TopPagesOrderBy(orderBy) ==
    IF orderBy = JStr("ExtBackLinks") THEN 0
    ELSE IF orderBy = JStr("RefDomains") THEN 1
    ELSE IF orderBy = JStr("TrustFlow") THEN 2
    ELSE 3

get_top_pages_params(a) ==
    "item" :> a.item @@ "datasource" :> a.datasource @@ "Count" :> a.count
    @@ "OrderBy" :> JNum(TopPagesOrderBy(a.orderBy))

get_topics_params(a) ==
    "items" :> JNum(1) @@ "item0" :> a.item @@ "datasource" :> a.datasource
    @@ "DesiredTopics" :> JNum(10)

get_new_lost_backlinks_params(a) ==
    "item" :> a.item @@ "Count" :> a.count
    @@ "Mode" :> JNum(IF a.mode = JStr("new") THEN 0 ELSE 1)

compare_items_params(a) ==
    Spread(Spread("items" :> JNum(Len(a.items.v)),
                  fromEntries(ItemEntries(a.items.v))),
           "datasource" :> a.datasource)

get_subscription_info_params(a) == <<>>

\* the provider command a tool issues
Command(tool) ==
    CASE tool \in {"get_index_item_info", "get_topics", "compare_items"} -> "GetIndexItemInfo"
      [] tool = "get_backlinks" -> "GetBackLinkData"
      [] tool = "get_anchor_text" -> "GetAnchorText"
      [] tool = "get_ref_domains" -> "GetRefDomains"
      [] tool = "get_top_pages" -> "GetTopPages"
      [] tool = "get_new_lost_backlinks" -> "GetNewLostBackLinks"
      [] tool = "get_subscription_info" -> "GetSubscriptionInfo"

Params(tool, a) ==
    CASE tool = "get_index_item_info" -> get_index_item_info_params(a)
      [] tool = "get_backlinks" -> get_backlinks_params(a)
      [] tool = "get_anchor_text" -> get_anchor_text_params(a)
      [] tool = "get_ref_domains" -> get_ref_domains_params(a)
      [] tool = "get_top_pages" -> get_top_pages_params(a)
      [] tool = "get_topics" -> get_topics_params(a)
      [] tool = "get_new_lost_backlinks" -> get_new_lost_backlinks_params(a)
      [] tool = "compare_items" -> compare_items_params(a)
      [] tool = "get_subscription_info" -> get_subscription_info_params(a)

(***************************************************************************)
(* majesticRequest: the GET it builds, and how it settles on the response. *)
(***************************************************************************)
\* the URL fetched: app_api_key and cmd, then every parameter, each set by
\* key with its value converted by String
majesticUrl(apiKey, cmd, params) ==
    [url |-> MAJESTIC_API_URL,
     query |-> Spread("app_api_key" :> String(apiKey) @@ "cmd" :> cmd,
                      [k \in DOMAIN params |-> String(params[k])])]

Pending == [kind |-> "pending"]
Throw(name, message) == [kind |-> "error", name |-> name, message |-> message]
Return(value) == [kind |-> "return", value |-> value]

\* variant: response.ok is not looked at
majesticOnResponse_unchecked(r) == Pending

\* after `await fetch`: a response that is not ok throws
majesticOnResponse(r) ==
    IF ~r.ok
    THEN Throw("Error", "Majestic API error: " \o ToString(r.status) \o " " \o r.statusText)
    ELSE Pending

\* variant: ErrorMessage ?? Code, which keeps an empty message
majesticOnJson_nullish(body) ==
    IF ~body.valid THEN Throw("SyntaxError", "Unexpected token in JSON")
    ELSE LET data == body.json IN
         IF data.t = "null"
         THEN Throw("TypeError", "Cannot read properties of null (reading 'Code')")
         ELSE IF Get(data, "Code") # JStr("OK")
         THEN Throw("Error", "Majestic API error: "
                             \o String(IF Get(data, "ErrorMessage").t \in {"undef", "null"}
                                       THEN Get(data, "Code")
                                       ELSE Get(data, "ErrorMessage")))
         ELSE Return(data)

\* after `await response.json()`: the envelope is returned only with Code "OK"
majesticOnJson(body) ==
    IF ~body.valid THEN Throw("SyntaxError", "Unexpected token in JSON")
    ELSE LET data == body.json IN
         IF data.t = "null"
         THEN Throw("TypeError", "Cannot read properties of null (reading 'Code')")
         ELSE IF Get(data, "Code") # JStr("OK")
         THEN Throw("Error", "Majestic API error: "
                             \o String(Or(Get(data, "ErrorMessage"), Get(data, "Code"))))
         ELSE Return(data)

(***************************************************************************)
(* Tool handlers: the payload made of the envelope majesticRequest returns.*)
(***************************************************************************)
\* variant: an empty Data falls back to the envelope too
TableOrEnvelope_nonEmpty(result, table) ==
    LET data == OptGet(OptGet(Get(result, "DataTables"), table), "Data")
    IN  IF data.t = "arr" /\ data.v = <<>> THEN result ELSE Or(data, result)

\* result.DataTables?.<table>?.Data || result
TableOrEnvelope(result, table) ==
    Or(OptGet(OptGet(Get(result, "DataTables"), table), "Data"), result)

TopicKey(i) == "TopicalTrustFlow_Topic_" \o ToString(i)
ValueKey(i) == "TopicalTrustFlow_Value_" \o ToString(i)

RECURSIVE TopicsFrom(_, _)
RECURSIVE TopicsFrom_below9(_, _)
\* variant: the scan stops one index early (i < 9)
TopicsFrom_below9(data, i) ==
    IF i < 9
    THEN LET topic == Get(data, TopicKey(i))
             value == Get(data, ValueKey(i))
         IN  (IF Truthy(topic) /\ Truthy(value)
              THEN <<JObj({<<"topic", topic>>, <<"value", value>>})>>
              ELSE <<>>) \o TopicsFrom_below9(data, i + 1)
    ELSE <<>>

\* for (let i = n; i < 10; i++) if (topic && value) topics.push({ topic, value })
TopicsFrom(data, i) ==
    IF i < 10
    THEN LET topic == Get(data, TopicKey(i))
             value == Get(data, ValueKey(i))
         IN  (IF Truthy(topic) /\ Truthy(value)
              THEN <<JObj({<<"topic", topic>>, <<"value", value>>})>>
              ELSE <<>>) \o TopicsFrom(data, i + 1)
    ELSE <<>>

\* variant: without the first row, an empty topics list instead of the envelope
get_topics_payload_emptyTopics(a, result) ==
    LET data == OptIndex(OptGet(OptGet(Get(result, "DataTables"), "Results"), "Data"), 0)
    IN  JObj({<<"item", a.item>>,
              <<"topics", JArr(IF Truthy(data) THEN TopicsFrom(data, 0) ELSE <<>>)>>})

\* const data = result.DataTables?.Results?.Data?.[0]; if (data) ... (data is
\* bound once, as the one element of a set)
get_topics_payload(a, result) ==
    CHOOSE payload \in
        {IF Truthy(data)
         THEN JObj({<<"item", a.item>>, <<"topics", JArr(TopicsFrom(data, 0))>>})
         ELSE result :
            data \in {OptIndex(OptGet(OptGet(Get(result, "DataTables"), "Results"), "Data"), 0)}} :
        TRUE

Payload(tool, a, result) ==
    CASE tool \in {"get_index_item_info", "compare_items"} -> TableOrEnvelope(result, "Results")
      [] tool = "get_backlinks" -> TableOrEnvelope(result, "BackLinks")
      [] tool = "get_anchor_text" -> TableOrEnvelope(result, "AnchorText")
      [] tool = "get_ref_domains" -> TableOrEnvelope(result, "RefDomains")
      [] tool = "get_top_pages" -> TableOrEnvelope(result, "TopPages")
      [] tool = "get_topics" -> get_topics_payload(a, result)
      [] tool = "get_new_lost_backlinks" -> Or(OptGet(Get(result, "DataTables"), "Data"), result)
      [] tool = "get_subscription_info" -> result

\* { content: [{ type: "text", text: JSON.stringify(payload, null, 2) }] }: the
\* text is held as the JSON value it serialises
ToolResult(payload) ==
    [kind |-> "result", content |-> <<[type |-> "text", text |-> [json |-> payload]]>>]

(***************************************************************************)
(* Inputs: the tool calls a client makes and the responses the provider    *)
(* gives, drawn from small sets.                                           *)
(***************************************************************************)
\* an object of the keys of f whose value is not undefined
Obj(f) == JObj({<<k, f[k]>> : k \in {x \in DOMAIN f : f[x].t # "undef"}})

\* the documented maximum of get_index_item_info's items
DocMaxItems == 100

Site(i) == JStr("site" \o ToString(i) \o ".com")
ItemsOfLen(n) == JArr([i \in 1..n |-> Site(i)])
ItemLens == (0..MaxLen) \cup {DocMaxItems, DocMaxItems + 1}
ItemsArgs == {ItemsOfLen(n) : n \in ItemLens} \cup {JUndef, JArr(<<JNum(7), JStr("a.org")>>)}

ItemArgs == {JStr("example.com"), JUndef}
TopicItemArgs == ItemArgs \cup {JStr("a.org")}
DatasourceArgs == {JUndef, JStr("historic"), JStr("stale")}
CountArgs(max) == {JUndef, JNum(0), JNum(1), JNum(max), JNum(max + 1)}
FilterArgs == {JUndef, JStr(""), JStr("Recreation/Travel")}

RawArgs(tool) ==
    CASE tool = "get_index_item_info" ->
           {Obj(f) : f \in [items : ItemsArgs, datasource : DatasourceArgs,
                            includeSubdomains : {JUndef, JBool(FALSE), JStr("no")}]}
      [] tool = "get_backlinks" ->
           {Obj(f) : f \in [item : ItemArgs, datasource : DatasourceArgs,
                            count : CountArgs(50000),
                            mode : {JStr("1"), JStr("2")},
                            filterTopic : FilterArgs, filterRefDomain : FilterArgs]}
      [] tool = "get_anchor_text" ->
           {Obj(f) : f \in [item : ItemArgs, datasource : DatasourceArgs,
                            count : CountArgs(1000),
                            mode : {JUndef, JStr("1")},
                            textMode : {JUndef, JStr("2"), JStr("3")}]}
      [] tool = "get_ref_domains" ->
           {Obj(f) : f \in [item : ItemArgs, datasource : DatasourceArgs,
                            count : CountArgs(50000),
                            orderBy : {JUndef, JStr("TrustFlow"), JStr("CitationFlow"),
                                       JStr("AlexaRank"), JStr("RefDomains"),
                                       JStr("ExtBackLinks"), JNum(2)},
                            filterTopic : FilterArgs]}
      [] tool = "get_top_pages" ->
           {Obj(f) : f \in [item : ItemArgs, datasource : DatasourceArgs,
                            count : CountArgs(10000),
                            orderBy : {JUndef, JStr("ExtBackLinks"), JStr("RefDomains"),
                                       JStr("TrustFlow"), JStr("CitationFlow"),
                                       JStr("AlexaRank"), JStr("trustflow")}]}
      [] tool = "get_topics" ->
           {Obj(f) : f \in [item : TopicItemArgs, datasource : DatasourceArgs]}
      [] tool = "get_new_lost_backlinks" ->
           {Obj(f) : f \in [item : ItemArgs, count : CountArgs(50000),
                            mode : {JUndef, JStr("lost"), JStr("gone")}]}
      [] tool = "compare_items" ->
           {Obj(f) : f \in [items : ItemsArgs, datasource : DatasourceArgs]}
      [] tool = "get_subscription_info" -> {JObj({})}

\* rows of a provider table
RowA == JObj({<<"SourceURL", JStr("http://a.org/x")>>, <<"TrustFlow", JNum(40)>>})
RowB == JObj({<<"SourceURL", JStr("http://b.org/y")>>, <<"TrustFlow", JNum(0)>>})

\* a topic slot of a GetIndexItemInfo row: both fields truthy, the value
\* missing, the value 0, or the topic empty
PairKinds == {"both", "topicOnly", "zeroValue", "emptyTopic"}
TopicName(i) == JStr("Topic/" \o ToString(i))
PairFields(i, kind) ==
    CASE kind = "both" -> {<<TopicKey(i), TopicName(i)>>, <<ValueKey(i), JStr(ToString(40 - i))>>}
      [] kind = "topicOnly" -> {<<TopicKey(i), TopicName(i)>>}
      [] kind = "zeroValue" -> {<<TopicKey(i), TopicName(i)>>, <<ValueKey(i), JNum(0)>>}
      [] kind = "emptyTopic" -> {<<TopicKey(i), JStr("")>>, <<ValueKey(i), JStr(ToString(40 - i))>>}
\* slots 0..9 are the ones get_topics scans; slot 10 lies beyond them
Slots == 0..10
\* the slots a partly filled row fills: the first two, a middle one, the last
\* one scanned and the one beyond
SomeSlots == {0, 1, 5, 9, 10}
TopicRow(f) ==
    JObj({<<"Item", JStr("example.com")>>} \cup UNION {PairFields(i, f[i]) : i \in DOMAIN f})
TopicRows ==
    {TopicRow(f) : f \in UNION {[S -> PairKinds] :
                                S \in {T \in SUBSET SomeSlots : Cardinality(T) <= MaxFilled}}}
    \cup {TopicRow([i \in Slots |-> "both"])}

\* the row sequences a table may carry
RowSeqs == UNION {[1..n -> {RowA, RowB}] : n \in 0..MaxRows}

TableNames == {"Results", "BackLinks", "AnchorText", "RefDomains", "TopPages"}

\* what an envelope carries under DataTables
DataTablesOf(tool) ==
    {JUndef, JNull, JObj({})}
    \cup {JObj({<<tn, inner>>}) : tn \in TableNames, inner \in {JObj({}), JObj({<<"Data", JNull>>})}}
    \cup {JObj({<<tn, JObj({<<"Data", JArr(rows)>>})>>}) : tn \in TableNames, rows \in RowSeqs}
    \cup {JObj({<<"Data", JArr(rows)>>}) : rows \in RowSeqs}
    \cup (IF tool = "get_topics"
          THEN {JObj({<<"Results", JObj({<<"Data", JArr(<<r>>)>>})>>}) : r \in TopicRows}
               \cup {JObj({<<"Results", JObj({<<"Data", JArr(<<TopicRow(0 :> "both"), RowA>>)>>})>>})}
          ELSE {})

Envelopes(tool) ==
    {Obj([Code |-> JStr("OK"), ErrorMessage |-> JUndef, DataTables |-> dt]) :
        dt \in DataTablesOf(tool)}
    \cup {Obj([Code |-> JStr("OK"), ErrorMessage |-> JStr(""),
               DataTables |-> JObj({<<"Results", JObj({<<"Data", JArr(<<RowA>>)>>})>>})])}
    \cup {Obj([Code |-> code, ErrorMessage |-> msg, DataTables |-> dt]) :
            code \in {JUndef, JStr("InsufficientCredits"), JStr("ok")},
            msg \in {JUndef, JNull, JStr(""), JStr("Not enough credits")},
            dt \in {JUndef, JObj({<<"Results", JObj({<<"Data", JArr(<<RowA>>)>>})>>})}}

Malformed == [valid |-> FALSE]
Json(x) == [valid |-> TRUE, json |-> x]

Bodies(tool) == {Malformed, Json(JNull)} \cup {Json(e) : e \in Envelopes(tool)}

OkEnvelope == Obj([Code |-> JStr("OK"),
                   DataTables |-> JObj({<<"Results", JObj({<<"Data", JArr(<<RowA>>)>>})>>})])

Response(status, statusText, body) ==
    [ok |-> status \in 200..299, status |-> status, statusText |-> statusText, body |-> body]

Responses(tool) ==
    {Response(200, "OK", b) : b \in Bodies(tool)}
    \cup {Response(st[1], st[2], b) :
            st \in {<<500, "Internal Server Error">>, <<403, "Forbidden">>},
            b \in {Malformed, Json(OkEnvelope)}}

NoResponse == [ok |-> FALSE, status |-> 0, statusText |-> "", body |-> Malformed]

\* the request-scoped environment: the API key set, empty, or absent
Envs == {[MAJESTIC_API_KEY |-> k] : k \in {JStr("secret"), JStr(""), JUndef}}

(***************************************************************************)
(* State.  An invocation is idle, awaits fetch ("fetch"), awaits           *)
(* response.json() ("json"), or is done.                                   *)
(***************************************************************************)
Invs == {"A", "B"}
Main == "A"

NoCall == [tool |-> "none"]

Init ==
    /\ env \in Envs
    /\ pc = [i \in Invs |-> "idle"]
    /\ call = [i \in Invs |-> NoCall]
    /\ sent = [i \in Invs |-> <<>>]
    /\ resp = [i \in Invs |-> NoResponse]
    /\ outcome = [i \in Invs |-> Pending]

\* the arguments invocation i's handler received
Args(i) == Parse(call[i].tool, call[i].arguments)

\* variant: the handlers fill one params object shared by the invocations, so
\* a request keeps the parameters left there by another invocation's request
CallTool_sharedParams(i, tool, raw) ==
    /\ pc[i] = "idle"
    /\ call' = [call EXCEPT ![i] = [tool |-> tool, arguments |-> raw]]
    /\ IF Valid(tool, raw)
       THEN /\ sent' = [sent EXCEPT ![i] = Append(@,
                            LET own == majesticUrl(env.MAJESTIC_API_KEY, Command(tool),
                                                   Params(tool, Parse(tool, raw)))
                                others == {j \in Invs \ {i} : sent[j] # <<>>}
                                left == IF others = {} THEN <<>>
                                        ELSE sent[CHOOSE j \in others : TRUE][1].query
                            IN  [own EXCEPT !.query = Spread(left, own.query)])]
            /\ pc' = [pc EXCEPT ![i] = "fetch"]
            /\ UNCHANGED outcome
       ELSE /\ outcome' = [outcome EXCEPT ![i] = Throw("McpError", "Invalid arguments")]
            /\ pc' = [pc EXCEPT ![i] = "done"]
            /\ UNCHANGED sent
    /\ UNCHANGED <<env, resp>>

\* A tools/call request arrives.  Arguments failing the schema are rejected
\* without the handler running; otherwise the handler builds the parameters and
\* majesticRequest issues the GET and suspends at `await fetch`.
CallTool(i, tool, raw) ==
    /\ pc[i] = "idle"
    /\ call' = [call EXCEPT ![i] = [tool |-> tool, arguments |-> raw]]
    /\ IF Valid(tool, raw)
       THEN /\ sent' = [sent EXCEPT ![i] = Append(@,
                            majesticUrl(env.MAJESTIC_API_KEY, Command(tool),
                                        Params(tool, Parse(tool, raw))))]
            /\ pc' = [pc EXCEPT ![i] = "fetch"]
            /\ UNCHANGED outcome
       ELSE /\ outcome' = [outcome EXCEPT ![i] = Throw("McpError", "Invalid arguments")]
            /\ pc' = [pc EXCEPT ![i] = "done"]
            /\ UNCHANGED sent
    /\ UNCHANGED <<env, resp>>

\* variant: a response that is not ok is retried once
FetchSettles_retry(i, r) ==
    /\ pc[i] = "fetch"
    /\ resp' = [resp EXCEPT ![i] = r]
    /\ LET o == majesticOnResponse(r) IN
       IF o.kind = "error" /\ Len(sent[i]) < 2
       THEN /\ sent' = [sent EXCEPT ![i] = Append(@, sent[i][1])]
            /\ UNCHANGED <<pc, outcome>>
       ELSE IF o.kind = "error"
       THEN /\ outcome' = [outcome EXCEPT ![i] = o]
            /\ pc' = [pc EXCEPT ![i] = "done"]
            /\ UNCHANGED sent
       ELSE /\ pc' = [pc EXCEPT ![i] = "json"]
            /\ UNCHANGED <<outcome, sent>>
    /\ UNCHANGED <<env, call>>

\* fetch resolves with response r: a response that is not ok throws, and the
\* handler, which catches nothing, fails; otherwise majesticRequest suspends at
\* `await response.json()`.
FetchSettles(i, r) ==
    /\ pc[i] = "fetch"
    /\ resp' = [resp EXCEPT ![i] = r]
    /\ LET o == majesticOnResponse(r) IN
       IF o.kind = "error"
       THEN /\ outcome' = [outcome EXCEPT ![i] = o]
            /\ pc' = [pc EXCEPT ![i] = "done"]
       ELSE /\ pc' = [pc EXCEPT ![i] = "json"]
            /\ UNCHANGED outcome
    /\ UNCHANGED <<env, call, sent>>

\* response.json() settles: majesticRequest throws or returns the envelope, and
\* the handler returns the tool result made of it.
JsonSettles(i) ==
    /\ pc[i] = "json"
    /\ \E o \in {majesticOnJson(resp[i].body)} :
         outcome' = [outcome EXCEPT ![i] =
                        IF o.kind = "error" THEN o
                        ELSE ToolResult(Payload(call[i].tool, Args(i), o.value))]
    /\ pc' = [pc EXCEPT ![i] = "done"]
    /\ UNCHANGED <<env, call, sent, resp>>

\* the steps of invocation i
Call(i) ==
    /\ pc[i] = "idle"
    /\ \E tool \in Tools : \E raw \in RawArgs(tool) : CallTool(i, tool, raw)

Fetch(i) ==
    /\ pc[i] = "fetch"
    /\ \E r \in Responses(call[i].tool) : FetchSettles(i, r)

Next ==
    \/ Call(Main)
    \/ Fetch(Main)
    \/ JsonSettles(Main)

Spec == Init /\ [][Next]_vars

(***************************************************************************)
(* Concurrent invocations.  The agent serves every tools/call on one       *)
(* thread; an invocation runs until it awaits, and any other invocation    *)
(* may take its steps meanwhile.                                           *)
(***************************************************************************)
\* the tool calls the concurrent invocations choose from
ConcCalls ==
    {<<"get_backlinks", JObj({<<"item", JStr("example.com")>>})>>,
     <<"get_backlinks", JObj({<<"item", JStr("example.com")>>,
                              <<"filterTopic", JStr("Recreation/Travel")>>})>>,
     <<"get_backlinks", JObj({<<"item", JStr("a.org")>>,
                              <<"filterRefDomain", JStr("b.org")>>})>>,
     <<"get_backlinks", JObj({<<"count", JNum(0)>>})>>,
     <<"get_topics", JObj({<<"item", JStr("example.com")>>})>>,
     <<"get_subscription_info", JObj({})>>}

\* the responses the provider gives them
ConcResponses(tool) ==
    {Response(500, "Internal Server Error", Malformed),
     Response(200, "OK", Malformed),
     Response(200, "OK", Json(Obj([Code |-> JStr("InsufficientCredits"),
                                   ErrorMessage |-> JStr("Not enough credits")]))),
     Response(200, "OK", Json(OkEnvelope)),
     Response(200, "OK", Json(Obj([Code |-> JStr("OK")])))}
    \cup (IF tool = "get_backlinks"
          THEN {Response(200, "OK", Json(Obj([Code |-> JStr("OK"),
                   DataTables |-> JObj({<<"BackLinks",
                                          JObj({<<"Data", JArr(<<RowA, RowB>>)>>})>>})])))}
          ELSE {})

ConcCall(i) ==
    /\ pc[i] = "idle"
    /\ \E c \in ConcCalls : CallTool(i, c[1], c[2])

ConcFetch(i) ==
    /\ pc[i] = "fetch"
    /\ \E r \in ConcResponses(call[i].tool) : FetchSettles(i, r)

\* any invocation takes its next step
ConcNext ==
    \E i \in Invs :
        \/ ConcCall(i)
        \/ ConcFetch(i)
        \/ JsonSettles(i)

ConcSpec == Init /\ [][ConcNext]_vars

(***************************************************************************)
(* Properties.                                                             *)
(***************************************************************************)
Called(i, tool) == call[i].tool = tool

\* the argument the client gave under key k (undefined when it gave none)
Given(i, k) == Get(call[i].arguments, k)

\* the keys the client gave
GivenKeys(i) == {p[1] : p \in call[i].arguments.v}

\* invocation i was rejected at validation: it is over, failed, and issued no request
Rejected(i) ==
    /\ pc[i] = "done"
    /\ outcome[i].kind = "error"
    /\ outcome[i].name = "McpError"
    /\ sent[i] = <<>>

\* invocation i issued its one request
Requested(i) == Len(sent[i]) = 1

\* a JSON array of strings
IsStringArray(x) == x.t = "arr" /\ \A n \in 1..Len(x.v) : x.v[n].t = "str"

\* C1 (as claimed): a get_index_item_info call whose items array has fewer than 1
\* or more than 100 elements is rejected with a validation error and issues no
\* provider request.
C1_ItemsCardinalityEnforced ==
    \A i \in Invs :
        (/\ Called(i, "get_index_item_info")
         /\ IsStringArray(Given(i, "items"))
         /\ (Len(Given(i, "items").v) < 1 \/ Len(Given(i, "items").v) > 100))
        => Rejected(i)

\* the count range the documentation states for each tool that takes count
CountTools == {"get_backlinks", "get_ref_domains", "get_new_lost_backlinks",
               "get_anchor_text", "get_top_pages"}
CountMax(tool) ==
    CASE tool \in {"get_backlinks", "get_ref_domains", "get_new_lost_backlinks"} -> 50000
      [] tool = "get_anchor_text" -> 1000
      [] tool = "get_top_pages" -> 10000

ItemKeys == <<"item0", "item1", "item2", "item3", "item4">>

\* C3: compare_items rejects an items array of a size outside 2..5 before any
\* request; a request it issued carries items=n and exactly the keys
\* item0..item(n-1), each with the element at that index; and a call giving only
\* 2..5 items is accepted.
C3_CompareItems ==
    \A i \in Invs :
        (Called(i, "compare_items") /\ IsStringArray(Given(i, "items"))) =>
            LET items == Given(i, "items").v
                n == Len(items)
            IN  /\ n \notin 2..5 => Rejected(i)
                /\ sent[i] # <<>> =>
                       LET q == sent[i][1].query IN
                       /\ n \in 2..5
                       /\ q["items"] = ToString(n)
                       /\ DOMAIN q = {"app_api_key", "cmd", "items", "datasource"}
                                     \cup {ItemKeys[k] : k \in 1..n}
                       /\ \A k \in 1..n : q[ItemKeys[k]] = items[k].v
                /\ (n \in 2..5 /\ GivenKeys(i) = {"items"}) => Requested(i)

\* C3's case: five items were accepted and sent
C3_Witness ==
    \E i \in Invs :
        /\ Called(i, "compare_items")
        /\ IsStringArray(Given(i, "items"))
        /\ Len(Given(i, "items").v) = 5
        /\ Requested(i)
        /\ sent[i][1].query["item4"] = "site5.com"

\* fetch has resolved for invocation i: resp[i] is the provider's response
Observed(i) == pc[i] \in {"json", "done"} /\ sent[i] # <<>>

HttpOk(i) == resp[i].status \in 200..299

\* the response is a success whose body parses to a JSON object
ParsedEnvelope(i) ==
    Observed(i) /\ HttpOk(i) /\ resp[i].body.valid /\ resp[i].body.json.t = "obj"

Envelope(i) == resp[i].body.json

ErrorPrefix == "Majestic API error: "

\* the raw Code as the failure's text shows it
CodeText(e) == IF Get(e, "Code").t = "str" THEN Get(e, "Code").v ELSE "undefined"

\* C4 (as claimed): with a parsed envelope whose Code is not "OK" the call fails,
\* carrying ErrorMessage whenever the envelope has one and the raw Code only when
\* it has none.
C4_MessageWheneverPresent ==
    \A i \in Invs :
        (pc[i] = "done" /\ ParsedEnvelope(i) /\ Get(Envelope(i), "Code") # JStr("OK")) =>
            /\ outcome[i].kind = "error"
            /\ Has(Envelope(i), "ErrorMessage")
                   => outcome[i].message = ErrorPrefix \o String(Get(Envelope(i), "ErrorMessage"))
            /\ ~Has(Envelope(i), "ErrorMessage")
                   => outcome[i].message = ErrorPrefix \o CodeText(Envelope(i))

\* C4 (amended): with a parsed envelope whose Code is not "OK" the call fails,
\* carrying ErrorMessage when it is a non-empty string and the raw Code when
\* ErrorMessage is absent, null or empty.
C4_MessageWhenNonEmpty ==
    \A i \in Invs :
        (pc[i] = "done" /\ ParsedEnvelope(i) /\ Get(Envelope(i), "Code") # JStr("OK")) =>
            LET m == Get(Envelope(i), "ErrorMessage") IN
            /\ outcome[i].kind = "error"
            /\ (m.t = "str" /\ m.v # "") => outcome[i].message = ErrorPrefix \o m.v
            /\ (m.t \in {"undef", "null"} \/ m = JStr(""))
                   => outcome[i].message = ErrorPrefix \o CodeText(Envelope(i))

\* C4's case: a provider error with a message, which the failure carries
C4_Witness ==
    \E i \in Invs :
        /\ pc[i] = "done" /\ ParsedEnvelope(i)
        /\ Get(Envelope(i), "Code") = JStr("InsufficientCredits")
        /\ Get(Envelope(i), "ErrorMessage") = JStr("Not enough credits")
        /\ outcome[i].message = "Majestic API error: Not enough credits"

\* the provider call of invocation i is seen to have failed
ProviderFailure(i) ==
    \/ ~HttpOk(i)
    \/ ~resp[i].body.valid
    \/ resp[i].body.json.t # "obj"
    \/ Get(Envelope(i), "Code") # JStr("OK")

\* C5: an invocation whose provider call failed (non-success status, body that
\* is not JSON, Code other than "OK") never holds a success result and ends
\* failed; a non-success status fails it at once, whatever the body.
C5_FailuresFail ==
    \A i \in Invs :
        Observed(i) =>
            /\ ProviderFailure(i) => outcome[i].kind # "result"
            /\ (ProviderFailure(i) /\ pc[i] = "done") => outcome[i].kind = "error"
            /\ ~HttpOk(i) => (pc[i] = "done" /\ outcome[i].kind = "error")

\* C5's case: a 500 whose body is an OK envelope fails the invocation
C5_Witness ==
    \E i \in Invs :
        /\ pc[i] = "done" /\ Observed(i)
        /\ resp[i].status = 500
        /\ resp[i].body = Json(OkEnvelope)
        /\ outcome[i].kind = "error"

\* C6: an invocation issues at most one request; one that passed validation has
\* issued exactly one GET to the provider whenever it is in flight or over, can
\* always take its next step until it is over, and is over with a tool result
\* or a failure; one that failed validation issued none.
C6_SingleRequest ==
    \A i \in Invs :
        /\ Len(sent[i]) <= 1
        /\ \A n \in 1..Len(sent[i]) : sent[i][n].url = MAJESTIC_API_URL
        /\ pc[i] = "idle" => sent[i] = <<>>
        /\ pc[i] \in {"fetch", "json"} => (Requested(i) /\ outcome[i] = Pending)
        /\ pc[i] = "fetch" => ENABLED Fetch(i)
        /\ pc[i] = "json" => ENABLED JsonSettles(i)
        /\ pc[i] = "done"
               => /\ outcome[i].kind \in {"result", "error"}
                  /\ Requested(i) <=> ~(outcome[i].kind = "error" /\ outcome[i].name = "McpError")

\* C6's case: an invocation over with a result after its one request
C6_Witness ==
    \E i \in Invs :
        pc[i] = "done" /\ outcome[i].kind = "result" /\ Requested(i)

\* the table path of each table-extracting tool
TableTools == {"get_index_item_info", "get_backlinks", "get_anchor_text", "get_ref_domains",
               "get_top_pages", "get_new_lost_backlinks", "compare_items"}
TablePath(tool) ==
    CASE tool \in {"get_index_item_info", "compare_items"} -> <<"DataTables", "Results", "Data">>
      [] tool = "get_backlinks" -> <<"DataTables", "BackLinks", "Data">>
      [] tool = "get_anchor_text" -> <<"DataTables", "AnchorText", "Data">>
      [] tool = "get_ref_domains" -> <<"DataTables", "RefDomains", "Data">>
      [] tool = "get_top_pages" -> <<"DataTables", "TopPages", "Data">>
      [] tool = "get_new_lost_backlinks" -> <<"DataTables", "Data">>

\* every key of the path is present, each in the value of the one before
RECURSIVE PathPresent(_, _)
PathPresent(x, path) ==
    path = <<>> \/ (Has(x, Head(path)) /\ PathPresent(Get(x, Head(path)), Tail(path)))

RECURSIVE PathValue(_, _)
PathValue(x, path) ==
    IF path = <<>> THEN x ELSE PathValue(Get(x, Head(path)), Tail(path))

\* invocation i is over and its provider call returned an envelope with Code "OK"
OkEnvelopeSeen(i) ==
    pc[i] = "done" /\ ParsedEnvelope(i) /\ Get(Envelope(i), "Code") = JStr("OK")

\* the payload of invocation i's tool result
PayloadOf(i) == outcome[i].content[1].text.json

Succeeded(i) == outcome[i].kind = "result" /\ Len(outcome[i].content) = 1

\* C7: for every table-extracting tool and OK envelope the invocation succeeds;
\* when every key of the tool's table path is present and holds a row sequence
\* (an empty one too) the payload is that row sequence, and when a key of the
\* path is absent the payload is the whole envelope.
C7_TableOrEnvelope ==
    \A i \in Invs : \A tool \in TableTools :
        (Called(i, tool) /\ OkEnvelopeSeen(i)) =>
            /\ Succeeded(i)
            /\ (PathPresent(Envelope(i), TablePath(tool))
                /\ PathValue(Envelope(i), TablePath(tool)).t = "arr")
                   => PayloadOf(i) = PathValue(Envelope(i), TablePath(tool))
            /\ ~PathPresent(Envelope(i), TablePath(tool)) => PayloadOf(i) = Envelope(i)

\* C7's case: a present table with no rows is returned as the empty sequence
C7_Witness ==
    \E i \in Invs :
        /\ Called(i, "get_backlinks") /\ OkEnvelopeSeen(i)
        /\ PathPresent(Envelope(i), TablePath("get_backlinks"))
        /\ PathValue(Envelope(i), TablePath("get_backlinks")) = JArr(<<>>)
        /\ PayloadOf(i) = JArr(<<>>)

\* the first result row of an envelope is present
FirstRowPresent(e) ==
    /\ PathPresent(e, <<"DataTables", "Results", "Data">>)
    /\ PathValue(e, <<"DataTables", "Results", "Data">>).t = "arr"
    /\ Len(PathValue(e, <<"DataTables", "Results", "Data">>).v) >= 1
    /\ PathValue(e, <<"DataTables", "Results", "Data">>).v[1].t = "obj"

FirstRow(e) == PathValue(e, <<"DataTables", "Results", "Data">>).v[1]

\* the indices 0..9 at which a row's topic and value are both truthy
TruthyPairs(row) ==
    {n \in 0..9 : Truthy(Get(row, TopicKey(n))) /\ Truthy(Get(row, ValueKey(n)))}

\* C8: get_topics, given an OK envelope with a first result row, returns
\* {item, topics} where topics holds, in ascending order of index, one
\* {topic, value} entry for each index 0..9 whose topic and value are both
\* truthy, and nothing else.
C8_Topics ==
    \A i \in Invs :
        (Called(i, "get_topics") /\ OkEnvelopeSeen(i) /\ FirstRowPresent(Envelope(i))) =>
            LET row == FirstRow(Envelope(i))
                S == TruthyPairs(row)
                topics == Get(PayloadOf(i), "topics")
            IN  /\ Succeeded(i)
                /\ Get(PayloadOf(i), "item") = Given(i, "item")
                /\ topics.t = "arr"
                /\ Len(topics.v) = Cardinality(S)
                /\ \A n \in S :
                       topics.v[Cardinality({m \in S : m < n}) + 1]
                           = JObj({<<"topic", Get(row, TopicKey(n))>>,
                                   <<"value", Get(row, ValueKey(n))>>})

\* C8's case: a row with only the pair of index 0 gives exactly one entry
C8_Witness ==
    \E i \in Invs :
        /\ Called(i, "get_topics") /\ OkEnvelopeSeen(i) /\ FirstRowPresent(Envelope(i))
        /\ Has(FirstRow(Envelope(i)), "TopicalTrustFlow_Topic_0")
        /\ TruthyPairs(FirstRow(Envelope(i))) = {0}
        /\ Get(PayloadOf(i), "topics")
               = JArr(<<JObj({<<"topic", JStr("Topic/0")>>, <<"value", JStr("40")>>})>>)

\* C9: get_topics, given an OK envelope whose Results table is absent or whose
\* row sequence is empty, succeeds with the whole envelope as its payload.
C9_TopicsFallback ==
    \A i \in Invs :
        (/\ Called(i, "get_topics") /\ OkEnvelopeSeen(i)
         /\ \/ ~PathPresent(Envelope(i), <<"DataTables", "Results">>)
            \/ /\ PathPresent(Envelope(i), <<"DataTables", "Results", "Data">>)
               /\ PathValue(Envelope(i), <<"DataTables", "Results", "Data">>) = JArr(<<>>))
        => (Succeeded(i) /\ PayloadOf(i) = Envelope(i))

\* C9's case: an empty row sequence gave the envelope back
C9_Witness ==
    \E i \in Invs :
        /\ Called(i, "get_topics") /\ OkEnvelopeSeen(i)
        /\ PathPresent(Envelope(i), <<"DataTables", "Results", "Data">>)
        /\ PathValue(Envelope(i), <<"DataTables", "Results", "Data">>) = JArr(<<>>)
        /\ PayloadOf(i) = Envelope(i)

\* the orderBy tables of the two tools
OrderByTools == {"get_ref_domains", "get_top_pages"}
OrderByCode(tool) ==
    CASE tool = "get_ref_domains" ->
           [TrustFlow |-> 0, CitationFlow |-> 1, AlexaRank |-> 2, RefDomains |-> 3]
      [] tool = "get_top_pages" ->
           [ExtBackLinks |-> 0, RefDomains |-> 1, TrustFlow |-> 2, CitationFlow |-> 3]

\* C10: for get_ref_domains and get_top_pages an orderBy outside the tool's four
\* literals is rejected before any request; a request issued for a given
\* literal carries the code the tool's table gives it, the table being a
\* bijection onto 0..3; and a call giving only a valid item and a literal is
\* accepted.
C10_OrderBy ==
    \A i \in Invs : \A tool \in OrderByTools :
        Called(i, tool) =>
            LET o == Given(i, "orderBy")
                code == OrderByCode(tool)
                literal == o.t = "str" /\ o.v \in DOMAIN code
            IN  /\ {code[l] : l \in DOMAIN code} = 0..3
                /\ Cardinality(DOMAIN code) = 4
                /\ (o.t # "undef" /\ ~literal) => Rejected(i)
                /\ (o.t # "undef" /\ sent[i] # <<>>)
                       => sent[i][1].query["OrderBy"] = ToString(code[o.v])
                /\ (literal /\ GivenKeys(i) = {"item", "orderBy"} /\ Given(i, "item").t = "str")
                       => Requested(i)

\* C10's case: get_ref_domains sent AlexaRank as 2
C10_Witness ==
    \E i \in Invs :
        /\ Called(i, "get_ref_domains")
        /\ Given(i, "orderBy") = JStr("AlexaRank")
        /\ Requested(i)
        /\ sent[i][1].query["OrderBy"] = "2"

\* the optional filter arguments of each tool that takes one, with the request
\* parameter each is sent as
FilterTools == {"get_backlinks", "get_ref_domains"}
FilterParams(tool) ==
    CASE tool = "get_backlinks" -> {<<"filterTopic", "FilterTopic">>,
                                    <<"filterRefDomain", "FilterRefDomain">>}
      [] tool = "get_ref_domains" -> {<<"filterTopic", "FilterTopic">>}

\* C11 (as claimed): the request of get_backlinks and of get_ref_domains carries
\* FilterTopic, and that of get_backlinks FilterRefDomain, if and only if the
\* corresponding argument was provided, the empty string included, and the
\* parameter carries the provided value.
C11_FilterWheneverProvided ==
    \A i \in Invs : \A tool \in FilterTools :
        (Called(i, tool) /\ Requested(i)) =>
            \A f \in FilterParams(tool) :
                /\ (f[2] \in DOMAIN sent[i][1].query) <=> (Given(i, f[1]) # JUndef)
                /\ (Given(i, f[1]) # JUndef)
                       => sent[i][1].query[f[2]] = Given(i, f[1]).v

\* C11 (amended): the request carries the parameter if and only if the argument
\* was provided and is not the empty string, and then the parameter carries the
\* provided value; a provided empty string is accepted and sent no parameter.
C11_FilterWhenNonEmpty ==
    \A i \in Invs : \A tool \in FilterTools :
        Called(i, tool) =>
            \A f \in FilterParams(tool) :
                LET given == Given(i, f[1]) IN
                /\ Requested(i) =>
                      /\ (f[2] \in DOMAIN sent[i][1].query)
                             <=> (given.t = "str" /\ given.v # "")
                      /\ (f[2] \in DOMAIN sent[i][1].query)
                             => sent[i][1].query[f[2]] = given.v
                /\ (/\ given = JStr("")
                    /\ GivenKeys(i) = {"item", f[1]}
                    /\ Given(i, "item").t = "str")
                       => Requested(i)

\* C11's case: get_backlinks sent a given topic filter, and left out the
\* referring-domain filter given as the empty string
C11_Witness ==
    \E i \in Invs :
        /\ Called(i, "get_backlinks")
        /\ Requested(i)
        /\ Given(i, "filterTopic") = JStr("Recreation/Travel")
        /\ Given(i, "filterRefDomain") = JStr("")
        /\ sent[i][1].query["FilterTopic"] = "Recreation/Travel"
        /\ "FilterRefDomain" \notin DOMAIN sent[i][1].query

\* the API key of the request-scoped environment is absent or empty
KeyMissing == env.MAJESTIC_API_KEY \in {JUndef, JStr("")}

\* C12 (as claimed): a tool invocation made while the API key is absent or empty
\* fails, whatever the provider responds; it never returns a tool result.
C12_MissingKeyFails ==
    \A i \in Invs :
        (KeyMissing /\ pc[i] = "done") => outcome[i].kind = "error"

\* the request invocation i's own arguments make
OwnRequest(i) ==
    majesticUrl(env.MAJESTIC_API_KEY, Command(call[i].tool),
                Params(call[i].tool, Args(i)))

\* the outcome invocation i's own arguments and own response make
OwnOutcome(i) ==
    IF ~Valid(call[i].tool, call[i].arguments)
    THEN Throw("McpError", "Invalid arguments")
    ELSE IF majesticOnResponse(resp[i]).kind = "error"
    THEN majesticOnResponse(resp[i])
    ELSE IF majesticOnJson(resp[i].body).kind = "error"
    THEN majesticOnJson(resp[i].body)
    ELSE ToolResult(Payload(call[i].tool, Args(i), majesticOnJson(resp[i].body).value))

\* Under any interleaving, an invocation's request is the one its own arguments
\* make and its outcome the one its own arguments and own response make; two
\* invocations given the same call issue the same request, and given the same
\* response too, end with the same outcome.
OwnInputsOnly ==
    /\ \A i \in Invs :
          /\ sent[i] # <<>> => sent[i] = <<OwnRequest(i)>>
          /\ pc[i] = "done" => outcome[i] = OwnOutcome(i)
          /\ pc[i] # "done" => outcome[i] = Pending
    /\ \A i, j \in Invs :
          (call[i] = call[j] /\ pc[i] # "idle")
              => /\ (pc[i] \in {"fetch", "json"} /\ pc[j] \in {"fetch", "json"})
                        => sent[i] = sent[j]
                 /\ (pc[i] = "done" /\ pc[j] = "done" /\ resp[i] = resp[j])
                        => (sent[i] = sent[j] /\ outcome[i] = outcome[j])

\* a step is taken by one invocation: it leaves every component of the others,
\* and the environment, as they were
OneInvocationSteps ==
    /\ env' = env
    /\ \E i \in Invs : \A j \in Invs \ {i} :
          /\ pc'[j] = pc[j]
          /\ call'[j] = call[j]
          /\ sent'[j] = sent[j]
          /\ resp'[j] = resp[j]
          /\ outcome'[j] = outcome[j]

\* an invocation resumed from the outbound HTTP call never suspends again
SuspendsOnce ==
    \A i \in Invs : (pc[i] = "fetch" /\ pc'[i] # "fetch") => pc'[i] = "done"

\* an invocation suspends at the outbound HTTP call, as soon as its arguments
\* are accepted; resumed with a response that is not ok it ends, and resumed
\* with one that is ok it suspends once more, at response.json(), and then ends
SuspendsInRequest ==
    \A i \in Invs :
        /\ pc[i] = "idle" => pc'[i] \in {"idle", "fetch", "done"}
        /\ (pc[i] = "idle" /\ pc'[i] = "fetch") => sent'[i] # <<>>
        /\ (pc[i] = "idle" /\ pc'[i] = "done") => sent'[i] = <<>>
        /\ pc[i] = "fetch" => pc'[i] \in {"fetch", "json", "done"}
        /\ (pc[i] = "fetch" /\ pc'[i] = "json") => resp'[i].ok
        /\ (pc[i] = "fetch" /\ pc'[i] = "done") => ~resp'[i].ok
        /\ pc[i] = "json" => pc'[i] \in {"json", "done"}
        /\ pc[i] = "done" => pc'[i] = "done"

====
